---- MODULE Spec2Model ----
(***************************************************************************)
(* The trackball configuration window of trackball-config-pyqt6.py: the    *)
(* widgets that hold the configuration, the "Load from device" and "Save   *)
(* to device" handlers, the feature report they exchange with the HID      *)
(* device, and the device handles they open.                               *)
(***************************************************************************)
EXTENDS Integers, Sequences, FiniteSets, TLC

(* ------------------------------ bounds --------------------------------- *)
\* user edits of a widget and device-side changes of the report, per behaviour
MaxChanges == 1
\* device handles that may be left open before the model stops leaking more
MaxHandles == 1
\* widgets the user has changed in a window that is saved
MaxEdited == 1

(* ----------------------------- constants ------------------------------- *)
CONFIG_SIZE == 22
REPORT_ID == 3
CONFIG_VERSION == 1
\* QSlider range set by make_slider
SliderMin == 1
SliderMax == 120
\* the value make_slider gives a new slider
SliderDefault == 1

\* (label, int(data)) pairs of the three kinds of dropdown
BALL_FUNCTIONS ==
    << <<"None", 0>>, <<"Cursor X", 1>>, <<"Cursor Y", 2>>, <<"V scroll", 3>>,
       <<"H scroll", 4>>, <<"Cursor X (inverted)", -1>>,
       <<"Cursor Y (inverted)", -2>>, <<"V scroll (inverted)", -3>>,
       <<"H scroll (inverted)", -4>> >>

BUTTON_FUNCTIONS ==
    << <<"None", 0>>, <<"Button 1 (left)", 1>>, <<"Button 2 (right)", 2>>,
       <<"Button 3 (middle)", 3>>, <<"Button 4 (back)", 4>>,
       <<"Button 5 (forward)", 5>>, <<"Button 6", 6>>, <<"Button 7", 7>>,
       <<"Button 8", 8>>, <<"Click-drag", 9>>, <<"Shift", 10>> >>

RING_FUNCTIONS ==
    << <<"None", 0>>, <<"V scroll", 1>>, <<"H scroll", 2>>,
       <<"V scroll (inverted)", -1>>, <<"H scroll (inverted)", -2>> >>

BallWidgets == {"ball_x", "ball_y", "ball_x_shifted", "ball_y_shifted"}
RingWidgets == {"ring", "ring_shifted"}
ButtonWidgets ==
    {"button1", "button2", "button3", "button4", "button1_shifted",
     "button2_shifted", "button3_shifted", "button4_shifted"}
Dropdowns == BallWidgets \cup RingWidgets \cup ButtonWidgets
Sliders == {"ball_cpi", "ball_cpi_shifted"}
Widgets == Dropdowns \cup Sliders

\* the (label, data) items make_dropdown put into the dropdown w
Options(w) ==
    IF w \in BallWidgets THEN BALL_FUNCTIONS
    ELSE IF w \in RingWidgets THEN RING_FUNCTIONS
    ELSE BUTTON_FUNCTIONS

\* the data of the items of dropdown w, as save_config_to_device reads them
Codes(w) == {Options(w)[i][2] : i \in DOMAIN Options(w)}

\* the window right after __init__: every dropdown on its first item, sliders at 1
DefaultConfig == [w \in Widgets |-> IF w \in Sliders THEN SliderDefault ELSE Options(w)[1][2]]

(* ------------------------------ CRC-32 --------------------------------- *)
\* CRC-32 of zlib (reflected polynomial 0xEDB88320), four bits at a time.
\* A 32-bit word is kept as its 32 bits, least significant first.

\* CrcTable[n + 1] is the word n (0..15) after four rounds of
\* "shift right, and xor the polynomial in when the bit shifted out is set"
CrcTable ==
    <<
       <<0,0,0,0,0,0,0,0, 0,0,0,0,0,0,0,0, 0,0,0,0,0,0,0,0, 0,0,0,0,0,0,0,0>>,
       <<0,0,1,0,0,1,1,0, 0,0,0,0,1,0,0,0, 1,1,1,0,1,1,0,1, 1,0,1,1,1,0,0,0>>,
       <<0,0,0,1,0,0,1,1, 0,0,0,0,0,1,0,0, 0,1,1,1,0,1,1,0, 1,1,0,1,1,1,0,0>>,
       <<0,0,1,1,0,1,0,1, 0,0,0,0,1,1,0,0, 1,0,0,1,1,0,1,1, 0,1,1,0,0,1,0,0>>,
       <<0,0,0,0,1,0,0,1, 1,0,0,0,0,0,1,0, 0,0,1,1,1,0,1,1, 0,1,1,0,1,1,1,0>>,
       <<0,0,1,0,1,1,1,1, 1,0,0,0,1,0,1,0, 1,1,0,1,0,1,1,0, 1,1,0,1,0,1,1,0>>,
       <<0,0,0,1,1,0,1,0, 1,0,0,0,0,1,1,0, 0,1,0,0,1,1,0,1, 1,0,1,1,0,0,1,0>>,
       <<0,0,1,1,1,1,0,0, 1,0,0,0,1,1,1,0, 1,0,1,0,0,0,0,0, 0,0,0,0,1,0,1,0>>,
       <<0,0,0,0,0,1,0,0, 1,1,0,0,0,0,0,1, 0,0,0,1,1,1,0,1, 1,0,1,1,0,1,1,1>>,
       <<0,0,1,0,0,0,1,0, 1,1,0,0,1,0,0,1, 1,1,1,1,0,0,0,0, 0,0,0,0,1,1,1,1>>,
       <<0,0,0,1,0,1,1,1, 1,1,0,0,0,1,0,1, 0,1,1,0,1,0,1,1, 0,1,1,0,1,0,1,1>>,
       <<0,0,1,1,0,0,0,1, 1,1,0,0,1,1,0,1, 1,0,0,0,0,1,1,0, 1,1,0,1,0,0,1,1>>,
       <<0,0,0,0,1,1,0,1, 0,1,0,0,0,0,1,1, 0,0,1,0,0,1,1,0, 1,1,0,1,1,0,0,1>>,
       <<0,0,1,0,1,0,1,1, 0,1,0,0,1,0,1,1, 1,1,0,0,1,0,1,1, 0,1,1,0,0,0,0,1>>,
       <<0,0,0,1,1,1,1,0, 0,1,0,0,0,1,1,1, 0,1,0,1,0,0,0,0, 0,0,0,0,0,1,0,1>>,
       <<0,0,1,1,1,0,0,0, 0,1,0,0,1,1,1,1, 1,0,1,1,1,1,0,1, 1,0,1,1,1,1,0,1>>
    >>

Bit(n, i) == (n \div (2 ^ i)) % 2

\* crc = (crc >> 4) ^ CrcTable[crc & 15]
CrcNibble(c) ==
    LET t == CHOOSE row \in {CrcTable[c[1] + 2 * c[2] + 4 * c[3] + 8 * c[4] + 1]} : TRUE
    IN  <<(c[5] + t[1]) % 2, (c[6] + t[2]) % 2, (c[7] + t[3]) % 2, (c[8] + t[4]) % 2,
          (c[9] + t[5]) % 2, (c[10] + t[6]) % 2, (c[11] + t[7]) % 2, (c[12] + t[8]) % 2,
          (c[13] + t[9]) % 2, (c[14] + t[10]) % 2, (c[15] + t[11]) % 2, (c[16] + t[12]) % 2,
          (c[17] + t[13]) % 2, (c[18] + t[14]) % 2, (c[19] + t[15]) % 2, (c[20] + t[16]) % 2,
          (c[21] + t[17]) % 2, (c[22] + t[18]) % 2, (c[23] + t[19]) % 2, (c[24] + t[20]) % 2,
          (c[25] + t[21]) % 2, (c[26] + t[22]) % 2, (c[27] + t[23]) % 2, (c[28] + t[24]) % 2,
          (c[29] + t[25]) % 2, (c[30] + t[26]) % 2, (c[31] + t[27]) % 2, (c[32] + t[28]) % 2,
          t[29], t[30], t[31], t[32]>>

\* crc ^ byte: the byte goes into the low eight bits
XorByte(c, b) ==
    <<(c[1] + Bit(b, 0)) % 2, (c[2] + Bit(b, 1)) % 2, (c[3] + Bit(b, 2)) % 2, (c[4] + Bit(b, 3)) % 2,
      (c[5] + Bit(b, 4)) % 2, (c[6] + Bit(b, 5)) % 2, (c[7] + Bit(b, 6)) % 2, (c[8] + Bit(b, 7)) % 2,
      c[9], c[10], c[11], c[12], c[13], c[14], c[15], c[16],
      c[17], c[18], c[19], c[20], c[21], c[22], c[23], c[24],
      c[25], c[26], c[27], c[28], c[29], c[30], c[31], c[32]>>

\* crc ^= byte, then the two halves of the byte
CrcByte(c, b) == CrcNibble(CrcNibble(XorByte(c, b)))

\* the bytes from the i-th on, one after the other; each word is worked out
\* before the next byte is taken
RECURSIVE CrcUpdate(_, _, _)
CrcUpdate(c, bytes, i) ==
    IF i > Len(bytes) THEN c
    ELSE LET n == CrcByte(c, bytes[i])
         IN  IF Len(n) = 32 THEN CrcUpdate(n, bytes, i + 1) ELSE <<>>

\* binascii.crc32(bytes), as its 32 bits
crc32(bytes) ==
    LET r == CrcUpdate([i \in 1..32 |-> 1], bytes, 1)
    IN  [i \in 1..32 |-> 1 - r[i]]

\* struct.pack("<L", crc): the four bytes, least significant first
PackL(c) ==
    LET byte(k) ==
        c[8*k - 7] + 2 * c[8*k - 6] + 4 * c[8*k - 5] + 8 * c[8*k - 4]
        + 16 * c[8*k - 3] + 32 * c[8*k - 2] + 64 * c[8*k - 1] + 128 * c[8*k]
    IN  <<byte(1), byte(2), byte(3), byte(4)>>

(* ------------------------- save: the report ---------------------------- *)
\* the order of the arguments of struct.pack after report id, version, command
WireOrder ==
    <<"ball_x", "ball_y", "ball_x_shifted", "ball_y_shifted", "ball_cpi",
      "ball_cpi_shifted", "ring", "ring_shifted", "button1", "button2",
      "button3", "button4", "button1_shifted", "button2_shifted",
      "button3_shifted", "button4_shifted">>

\* format "<BBb2b2bBBbb4b4b": 'B' takes 0..255 and 'b' takes -128..127;
\* struct.pack raises struct.error for anything else
PackFits(c) ==
    \A i \in DOMAIN WireOrder :
        IF WireOrder[i] \in Sliders
        THEN c[WireOrder[i]] \in 0..255
        ELSE c[WireOrder[i]] \in -128..127

\* the 19 bytes struct.pack returns; a signed byte is stored in two's complement
PackBytes(c) ==
    <<REPORT_ID, CONFIG_VERSION, 0>>
        \o <<c.ball_x % 256, c.ball_y % 256, c.ball_x_shifted % 256,
             c.ball_y_shifted % 256, c.ball_cpi % 256, c.ball_cpi_shifted % 256,
             c.ring % 256, c.ring_shifted % 256, c.button1 % 256, c.button2 % 256,
             c.button3 % 256, c.button4 % 256, c.button1_shifted % 256,
             c.button2_shifted % 256, c.button3_shifted % 256,
             c.button4_shifted % 256>>

\* as Report, with the checksum taken over data instead of data[1:]
ReportSumsReportId(c) == PackBytes(c) \o PackL(crc32(PackBytes(c)))

\* data += struct.pack("<L", binascii.crc32(data[1:]))
Report(c) == PackBytes(c) \o PackL(crc32(Tail(PackBytes(c))))

(* ------------------------- load: the report ---------------------------- *)
data_list ==
    <<"report_id", "version", "command", "ball_x", "ball_y", "ball_x_shifted",
      "ball_y_shifted", "ball_cpi", "ball_cpi_shifted", "ring", "ring_shifted",
      "button1", "button2", "button3", "button4", "button1_shifted",
      "button2_shifted", "button3_shifted", "button4_shifted", "crc32">>

\* dict(zip(data_list, data)): zip stops at the shorter of the two
Zip(d) ==
    LET n == IF Len(d) < Len(data_list) THEN Len(d) ELSE Len(data_list)
    IN  [k \in {data_list[i] : i \in 1..n} |->
            d[CHOOSE i \in 1..n : data_list[i] = k]]

load_ball ==
    (0 :> "None") @@ (1 :> "Cursor X") @@ (2 :> "Cursor Y") @@ (3 :> "V scroll")
    @@ (4 :> "H scroll") @@ (255 :> "Cursor X (inverted)")
    @@ (254 :> "Cursor Y (inverted)") @@ (253 :> "V scroll (inverted)")
    @@ (252 :> "H scroll (inverted)")

load_button ==
    (0 :> "None") @@ (1 :> "Button 1 (left)") @@ (2 :> "Button 2 (right)")
    @@ (3 :> "Button 3 (middle)") @@ (4 :> "Button 4 (back)")
    @@ (5 :> "Button 5 (forward)") @@ (6 :> "Button 6") @@ (7 :> "Button 7")
    @@ (8 :> "Button 8") @@ (9 :> "Click-drag") @@ (10 :> "Shift")

load_ring ==
    (0 :> "None") @@ (1 :> "V scroll") @@ (2 :> "H scroll")
    @@ (255 :> "V scroll (inverted)") @@ (254 :> "H scroll (inverted)")

\* the setCurrentText statements in the order they run: the dropdown set, the
\* key of val it is set from, the table the value is looked up in
SetOrder ==
    << <<"ball_x", "ball_x", load_ball>>,
       <<"ball_x_shifted", "ball_x_shifted", load_ball>>,
       <<"ball_y", "ball_x", load_ball>>,
       <<"ball_y_shifted", "ball_y_shifted", load_ball>>,
       <<"ring", "ring", load_ring>>,
       <<"ring_shifted", "ring_shifted", load_ring>>,
       <<"button1", "button1", load_button>>,
       <<"button1_shifted", "button1_shifted", load_button>>,
       <<"button2", "button2", load_button>>,
       <<"button2_shifted", "button2_shifted", load_button>>,
       <<"button3", "button3", load_button>>,
       <<"button3_shifted", "button3_shifted", load_button>>,
       <<"button4", "button4", load_button>>,
       <<"button4_shifted", "button4_shifted", load_button>> >>

\* the two setValue statements that follow them
SliderOrder == <<"ball_cpi", "ball_cpi_shifted">>

\* QComboBox.setCurrentText on a non-editable dropdown: the item with that
\* text becomes current; with no such item the dropdown is left as it is
setCurrentText(w, cur, text) ==
    IF \E i \in DOMAIN Options(w) : Options(w)[i][1] = text
    THEN Options(w)[CHOOSE i \in DOMAIN Options(w) : Options(w)[i][1] = text][2]
    ELSE cur

\* as setValue, on a slider that keeps whatever value it is given
setValueUnbounded(v) == v

\* QSlider.setValue: the value is bounded to the slider's range
setValue(v) == IF v < SliderMin THEN SliderMin ELSE IF v > SliderMax THEN SliderMax ELSE v

NoError == [kind |-> "none", at |-> "", name |-> "", value |-> -1]
\* what the dialog of show_exception_dialog shows: the exception, the widget
\* of the statement that raised, and the key that was missing
KeyErrorName(w, k) == [kind |-> "KeyError", at |-> w, name |-> k, value |-> -1]
KeyErrorValue(w, v) == [kind |-> "KeyError", at |-> w, name |-> "", value |-> v]
Raised(k) == [kind |-> k, at |-> "", name |-> "", value |-> -1]

RECURSIVE SetSliders(_, _, _)
SetSliders(c, val, i) ==
    IF i > Len(SliderOrder) THEN [cfg |-> c, err |-> NoError]
    ELSE LET w == SliderOrder[i]
         IN  IF w \notin DOMAIN val THEN [cfg |-> c, err |-> KeyErrorName(w, w)]
             ELSE SetSliders([c EXCEPT ![w] = setValue(val[w])], val, i + 1)

RECURSIVE SetCombos(_, _, _)
SetCombos(c, val, i) ==
    IF i > Len(SetOrder) THEN SetSliders(c, val, 1)
    ELSE LET w == SetOrder[i][1]
             k == SetOrder[i][2]
             table == SetOrder[i][3]
         IN  IF k \notin DOMAIN val THEN [cfg |-> c, err |-> KeyErrorName(w, k)]
             ELSE IF val[k] \notin DOMAIN table
                  THEN [cfg |-> c, err |-> KeyErrorValue(w, val[k])]
                  ELSE SetCombos([c EXCEPT ![w] = setCurrentText(w, c[w], table[val[k]])],
                                 val, i + 1)

\* the part of load_config_from_device after dev.close(): the widgets as it
\* leaves them and the exception it raises, if any
ApplyReport(c, d) == SetCombos(c, Zip(d), 1)

(* ------------------------------ state ---------------------------------- *)
VARIABLES
    cfg,        \* the current data of each dropdown and the value of each slider
    path,       \* devices_dropdown.currentData()
    devMem,     \* the feature report the device holds and returns
    handles,    \* device handles opened and not closed
    changes,    \* user edits and device-side changes so far
    lastOp,     \* what happened last
    lastErr,    \* the exception the last handler showed, NoError if none
    data,       \* <<d>> when the last step was a load that got d from get_feature_report
    sent,       \* <<b>> when the last step was a save that gave b to send_feature_report
    written     \* <<c>> while the device holds the report a save packed from the widgets c

vars == <<cfg, path, devMem, handles, changes, lastOp, lastErr, data, sent, written>>

DevicePath == "/dev/hidraw0"

\* what a device is taken to hold before this program wrote to it
FactoryReport == Report(DefaultConfig)

Init ==
    /\ cfg = DefaultConfig
    /\ path \in {"NULL", DevicePath}
    /\ devMem = FactoryReport
    /\ handles = 0
    /\ changes = 0
    /\ lastOp = "init"
    /\ lastErr = NoError
    /\ data = <<>>
    /\ sent = <<>>
    /\ written = <<>>

(* ----------------------------- the user -------------------------------- *)
\* the values the user is taken to pick between two clicks of a button
EditChoices(w) ==
    IF w \in Sliders THEN {SliderMax}
    ELSE IF w \in BallWidgets THEN {-2}
    ELSE IF w \in RingWidgets THEN {-1}
    ELSE {10}

\* the user picks an item of a dropdown or moves a slider
UserEdits ==
    /\ changes < MaxChanges
    /\ \E w \in Widgets : \E v \in EditChoices(w) : cfg' = [cfg EXCEPT ![w] = v]
    /\ changes' = changes + 1
    /\ lastOp' = "edit"
    /\ lastErr' = NoError
    /\ data' = <<>>
    /\ sent' = <<>>
    /\ UNCHANGED <<path, devMem, handles, written>>

\* the refresh button: the list holds the device, or the "NULL" entry
refresh_device_list ==
    /\ path' \in {"NULL", DevicePath}
    /\ lastOp' = "refresh"
    /\ lastErr' = NoError
    /\ data' = <<>>
    /\ sent' = <<>>
    /\ UNCHANGED <<cfg, devMem, handles, changes, written>>

(* ---------------------------- the device ------------------------------- *)
\* the first and last index (from 1) of the bytes the checksum is taken over,
\* and the index of the first configuration field, ball_x
PayloadFirst == 2
PayloadLast == 19
FieldFirst == 4

FlipBit(buf, pos, b) ==
    [buf EXCEPT ![pos] = IF Bit(@, b) = 1 THEN @ - 2 ^ b ELSE @ + 2 ^ b]

\* a buffer of full length with its checksum recomputed over its payload
Reseal(buf) ==
    SubSeq(buf, 1, PayloadLast)
        \o PackL(crc32(SubSeq(buf, PayloadFirst, PayloadLast)))

OtherVersions == {2}
ShortLengths == {12, 22}

\* what corruption, other firmware or another program may leave in the device:
\* a flipped low bit in the payload, a byte no field accepts (200), a report
\* of another version with a checksum that matches, a short report
Tampered(buf) ==
    {FlipBit(buf, pos, 0) : pos \in PayloadFirst..PayloadLast}
    \cup {[buf EXCEPT ![pos] = 200] : pos \in FieldFirst..PayloadLast}
    \cup {Reseal([buf EXCEPT ![PayloadFirst] = v]) : v \in OtherVersions}
    \cup {SubSeq(buf, 1, n) : n \in ShortLengths}

DeviceChanges ==
    /\ changes < MaxChanges
    /\ Len(devMem) = CONFIG_SIZE + 1
    /\ devMem' \in Tampered(devMem) \ {devMem}
    /\ changes' = changes + 1
    /\ lastOp' = "device"
    /\ lastErr' = NoError
    /\ data' = <<>>
    /\ sent' = <<>>
    /\ written' = <<>>
    /\ UNCHANGED <<cfg, path, handles>>

(* ----------------------------- handlers -------------------------------- *)
\* dev.get_feature_report(REPORT_ID, CONFIG_SIZE + 1): the report the device
\* holds, CONFIG_SIZE + 1 bytes of it at most
get_feature_report(mem) ==
    SubSeq(mem, 1, IF Len(mem) < CONFIG_SIZE + 1 THEN Len(mem) ELSE CONFIG_SIZE + 1)

\* load_config_from_device: the ways it can end, by what the device calls do.
\* An outcome is the widgets as it leaves them, the exception it raises, the
\* handles it opened and closed, and <<d>> if get_feature_report returned d.
load_config_from_device(c, p, mem) ==
    IF p = "NULL"
    THEN {[cfg |-> c, err |-> Raised("RuntimeError"), opened |-> 0, closed |-> 0,
           data |-> <<>>]}
    ELSE \* dev.open raises
         {[cfg |-> c, err |-> Raised("IOError"), opened |-> 0, closed |-> 0,
           data |-> <<>>]}
         \cup \* get_feature_report raises: dev.close() is not reached
         {[cfg |-> c, err |-> Raised("IOError"), opened |-> 1, closed |-> 0,
           data |-> <<>>]}
         \cup \* at most CONFIG_SIZE + 1 bytes come back, the handle is closed
              \* and the widgets are set
         {[cfg |-> r.cfg, err |-> r.err, opened |-> 1, closed |-> 1,
           data |-> <<get_feature_report(mem)>>] :
            r \in {ApplyReport(c, get_feature_report(mem))}}

\* the try of load_button_clicked shows whatever is raised
load_button_clicked ==
    \E r \in load_config_from_device(cfg, path, devMem) :
        /\ handles + r.opened - r.closed <= MaxHandles
        /\ cfg' = r.cfg
        /\ handles' = handles + r.opened - r.closed
        /\ data' = r.data
        /\ sent' = <<>>
        /\ lastOp' = "load"
        /\ lastErr' = r.err
        /\ UNCHANGED <<path, devMem, changes, written>>

\* save_config_to_device: the ways it can end.  An outcome is the exception
\* it raises, the handles it opened and closed, and <<b>> if it gave b to
\* send_feature_report.
save_config_to_device(c, p) ==
    IF p = "NULL"
    THEN {[err |-> Raised("RuntimeError"), opened |-> 0, closed |-> 0, sent |-> <<>>]}
    ELSE \* dev.open raises
         {[err |-> Raised("IOError"), opened |-> 0, closed |-> 0, sent |-> <<>>]}
         \cup
         (IF ~PackFits(c)
          THEN \* struct.pack raises: dev.close() is not reached
               {[err |-> Raised("struct.error"), opened |-> 1, closed |-> 0,
                 sent |-> <<>>]}
          ELSE \* send_feature_report raises (dev.close() is not reached), or
               \* returns and the handle is closed
               {[err |-> IF ok THEN NoError ELSE Raised("IOError"), opened |-> 1,
                 closed |-> IF ok THEN 1 ELSE 0, sent |-> <<b>>] :
                  b \in {Report(c)}, ok \in BOOLEAN})

\* the try of save_button_clicked shows whatever is raised; a report that
\* send_feature_report delivered is what the device holds and returns from
\* then on
save_button_clicked ==
    \E r \in save_config_to_device(cfg, path) :
        /\ handles + r.opened - r.closed <= MaxHandles
        /\ handles' = handles + r.opened - r.closed
        /\ sent' = r.sent
        /\ data' = <<>>
        /\ devMem' = IF r.err = NoError THEN r.sent[1] ELSE devMem
        /\ written' = IF r.err = NoError THEN <<cfg>> ELSE written
        /\ lastOp' = "save"
        /\ lastErr' = r.err
        /\ UNCHANGED <<cfg, path, changes>>

Next ==
    \/ UserEdits
    \/ refresh_device_list
    \/ DeviceChanges
    \/ load_button_clicked
    \/ save_button_clicked

\* the window in use: edits, refreshes, loads and saves in any order, on a
\* device whose report may change behind the program's back
Spec == Init /\ [][Next]_vars

(* ------------------- saving what the user can set up ------------------- *)
\* the values a widget can be given by the user; for a slider, a few of 1..120
WidgetValues(w) == IF w \in Sliders THEN {SliderMin, 2, 60, 119, SliderMax} ELSE Codes(w)

\* the windows that differ from the new window in at most n widgets
RECURSIVE Edited(_)
Edited(n) ==
    IF n = 0 THEN {DefaultConfig}
    ELSE LET less == Edited(n - 1)
         IN  less \cup UNION {UNION {{[c EXCEPT ![w] = v] : v \in WidgetValues(w)}
                                      : w \in Widgets} : c \in less}

InitSave ==
    /\ cfg \in Edited(MaxEdited)
    /\ path = DevicePath
    /\ devMem = FactoryReport
    /\ handles = 0
    /\ changes = 0
    /\ lastOp = "init"
    /\ lastErr = NoError
    /\ data = <<>>
    /\ sent = <<>>
    /\ written = <<>>

\* a window the user has set up, saved to the device
SpecSave == InitSave /\ [][save_button_clicked]_vars

(* --------------------- loading what a device holds --------------------- *)
\* a window with no widget as __init__ left it
OtherConfig ==
    [w \in Widgets |->
        IF w \in Sliders THEN SliderMax
        ELSE IF w \in BallWidgets THEN -2
        ELSE IF w \in RingWidgets THEN -1
        ELSE 10]

\* one byte of the payload replaced
Replaced(buf) ==
    {[buf EXCEPT ![pos] = v] : pos \in PayloadFirst..PayloadLast, v \in {0, 2, 99, 121, 128, 200}}

\* a report of this program with any one payload bit flipped, any one payload
\* byte replaced (the checksum left as it was, or made to match), or cut short
Reports(buf) ==
    {buf}
    \cup {FlipBit(buf, pos, b) : pos \in PayloadFirst..PayloadLast, b \in 0..7}
    \cup Replaced(buf)
    \cup {Reseal(r) : r \in Replaced(buf)}
    \cup {SubSeq(buf, 1, n) : n \in 0..CONFIG_SIZE}

DeviceReports == Reports(FactoryReport) \cup Reports(Report(OtherConfig))

InitLoad ==
    /\ cfg \in {DefaultConfig, OtherConfig}
    /\ path = DevicePath
    /\ devMem \in DeviceReports
    /\ handles = 0
    /\ changes = 0
    /\ lastOp = "init"
    /\ lastErr = NoError
    /\ data = <<>>
    /\ sent = <<>>
    /\ written = <<>>

\* a load from a device that holds any of these reports
SpecLoad == InitLoad /\ [][load_button_clicked]_vars

(* ------------------ packing values of any magnitude -------------------- *)
\* the packing of save_config_to_device as a function of the sixteen integers
\* it is given: the two CPI values at and beyond the ends of the slider's
\* range and of a byte
CpiArguments == {0, 1, 120, 121, 255, 256}

InitEncode ==
    /\ \E a \in CpiArguments, b \in CpiArguments, x \in Codes("ball_x") :
          cfg = [DefaultConfig EXCEPT !.ball_cpi = a, !.ball_cpi_shifted = b, !.ball_x = x]
    /\ path = DevicePath
    /\ devMem = FactoryReport
    /\ handles = 0
    /\ changes = 0
    /\ lastOp = "init"
    /\ lastErr = NoError
    /\ data = <<>>
    /\ sent = <<>>
    /\ written = <<>>

SpecEncode == InitEncode /\ [][save_button_clicked]_vars

(* ===================== properties of the specification ================= *)
\* the index (from 1) of a field in the report, by its place in the layout
\* report_id, version, command, ballAxisX, ballAxisY, ...
FieldIndex(name) == CHOOSE i \in DOMAIN data_list : data_list[i] = name

\* the wire codes defined for a dropdown's field: its codes in two's complement
WireCodes(w) == {IF v < 0 THEN v + 256 ELSE v : v \in Codes(w)}

\* the dropdowns whose byte in the report d is none of the field's wire codes
UnknownFields(d) == {w \in Dropdowns : d[FieldIndex(w)] \notin WireCodes(w)}

\* the sliders whose byte in the report d is outside 1..120
CpiOutOfRange(d) == {w \in Sliders : d[FieldIndex(w)] \notin 1..120}

FullLength(d) == Len(d) = 23

\* the trailing four bytes are the CRC-32 of version..last button, little-endian
CrcMatches(d) == SubSeq(d, 20, 23) = PackL(crc32(SubSeq(d, 2, 19)))

\* the last step was a load that got a report from the device
Loaded == lastOp = "load" /\ data # <<>>

\* C1: round trip: a load that succeeds on a device holding exactly the
\* report a save wrote leaves every widget as it was when that save ran
\* (ballAxisY too).
RoundTrip ==
    (lastOp = "load" /\ lastErr = NoError /\ written # <<>>) => cfg = written[1]

\* C2: checksum gate: a load of a full-length report of version 1 whose
\* trailing four bytes differ from the CRC-32 of its payload fails with
\* ChecksumError.
ChecksumGate ==
    (Loaded /\ FullLength(data[1]) /\ data[1][2] = 1 /\ ~CrcMatches(data[1]))
        => lastErr.kind = "ChecksumError"

\* C3: all or nothing: a load that fails, for whatever reason, leaves every
\* widget as it was before the load.
AllOrNothing ==
    [][(lastOp' = "load" /\ lastErr' # NoError) => cfg' = cfg]_vars

\* C4: unknown enum code: a load of an otherwise well-formed report (full
\* length, version 1, matching checksum) in which the byte of some enumerated
\* field is none of that field's wire codes fails with an error that names
\* such a field and the value of its byte.
UnknownEnumRejected ==
    (Loaded /\ FullLength(data[1]) /\ data[1][2] = 1 /\ CrcMatches(data[1])
            /\ UnknownFields(data[1]) # {})
        => /\ lastErr.kind \in {"KeyError", "UnknownEnumValueError"}
           /\ lastErr.at \in UnknownFields(data[1])
           /\ lastErr.value = data[1][FieldIndex(lastErr.at)]

\* C5: version gate: a load of a full-length report whose version byte is not
\* 1 fails with VersionError, whether or not its checksum matches.
VersionGate ==
    (Loaded /\ FullLength(data[1]) /\ data[1][2] # 1) => lastErr.kind = "VersionError"

\* C6: CPI range on decode: a load of an otherwise well-formed report whose
\* ballCpi or ballCpiShifted byte is 0 or above 120 fails with RangeError.
CpiRangeChecked ==
    (Loaded /\ FullLength(data[1]) /\ data[1][2] = 1 /\ CrcMatches(data[1])
            /\ UnknownFields(data[1]) = {} /\ CpiOutOfRange(data[1]) # {})
        => lastErr.kind = "RangeError"

\* the sixteen field bytes of the layout for the widgets c, inverted
\* functions as the negated code in two's complement
LayoutFields(c) ==
    LET wire(v) == IF v < 0 THEN v + 256 ELSE v
    IN  <<wire(c.ball_x), wire(c.ball_y), wire(c.ball_x_shifted), wire(c.ball_y_shifted),
          c.ball_cpi, c.ball_cpi_shifted, wire(c.ring), wire(c.ring_shifted),
          wire(c.button1), wire(c.button2), wire(c.button3), wire(c.button4),
          wire(c.button1_shifted), wire(c.button2_shifted), wire(c.button3_shifted),
          wire(c.button4_shifted)>>

\* C7: encode layout: every buffer a save hands to send_feature_report is
\* report_id 3, version 1, command 0, the sixteen fields in wire order, and
\* the little-endian CRC-32 of the bytes from version to the last button; the
\* new window gives [3,1,0,0,0,0,0,1,1,0,...,0] and the checksum 0xD262EA03,
\* and ballAxisY = Cursor Y (inverted) gives the byte 0xFE.
EncodeLayout ==
    sent # <<>> =>
        /\ Len(sent[1]) = 23
        /\ SubSeq(sent[1], 1, 19) = <<3, 1, 0>> \o LayoutFields(cfg)
        /\ CrcMatches(sent[1])
        /\ cfg = DefaultConfig =>
              sent[1] = <<3, 1, 0, 0, 0, 0, 0, 1, 1, 0, 0, 0, 0, 0, 0, 0, 0, 0, 0,
                          3, 234, 98, 210>>
        /\ cfg = [DefaultConfig EXCEPT !.ball_y = -2] =>
              sent[1] = <<3, 1, 0, 0, 254, 0, 0, 1, 1, 0, 0, 0, 0, 0, 0, 0, 0, 0, 0,
                          97, 216, 202, 119>>

\* a save of a window with ballAxisY = Cursor Y (inverted) was delivered
EncodeLayoutWitness ==
    lastOp = "save" /\ lastErr = NoError /\ sent # <<>> /\ cfg.ball_y = -2

FirstViolated(d) ==
    IF ~FullLength(d) THEN "FrameError"
    ELSE IF d[2] # 1 THEN "VersionError"
    ELSE IF ~CrcMatches(d) THEN "ChecksumError"
    ELSE IF UnknownFields(d) # {} \/ CpiOutOfRange(d) # {} THEN "FieldError"
    ELSE "none"

\* an error about a field's value, whatever it is called
ErrorClass(e) ==
    IF e.kind \in {"KeyError", "UnknownEnumValueError", "RangeError"} THEN "FieldError"
    ELSE e.kind

\* C9: validation order: the error a load reports is the one of the first
\* check the report violates, in the order frame size, version, checksum,
\* field semantics; none if it violates none.
ValidationOrder ==
    Loaded => ErrorClass(lastErr) = FirstViolated(data[1])

\* C10: device handle release: between handlers no device handle is open, and
\* a load or save with the "NULL" entry selected raises without opening one.
HandlesReleased ==
    /\ handles = 0
    /\ (lastOp \in {"load", "save"} /\ path = "NULL") => lastErr.kind = "RuntimeError"

\* every widget of c holds a value of its defined set
ValidConfig(c) ==
    /\ \A w \in BallWidgets : c[w] \in -4..4
    /\ \A w \in RingWidgets : c[w] \in -2..2
    /\ \A w \in ButtonWidgets : c[w] \in 0..10
    /\ \A w \in Sliders : c[w] \in 1..120

\* every field byte of the report d is a value of its defined set, negative
\* codes in two's complement
FieldsDefined(d) ==
    /\ \A w \in BallWidgets : d[FieldIndex(w)] \in (0..4) \cup (252..255)
    /\ \A w \in RingWidgets : d[FieldIndex(w)] \in (0..2) \cup (254..255)
    /\ \A w \in ButtonWidgets : d[FieldIndex(w)] \in 0..10
    /\ \A w \in Sliders : d[FieldIndex(w)] \in 1..120

\* C11: saved buffers are always valid: whatever the user edits, the device
\* returns and the handlers do, the window holds ball functions in -4..4,
\* ring functions in -2..2, button functions in 0..10 and CPI values in
\* 1..120, and every buffer handed to send_feature_report has all its fields
\* in those sets and a checksum that matches its payload.
SavedBuffersValid ==
    /\ ValidConfig(cfg)
    /\ sent # <<>> =>
          /\ FullLength(sent[1])
          /\ FieldsDefined(sent[1])
          /\ CrcMatches(sent[1])

\* a save was delivered of a window that shows Cursor X for the ball, which
\* only a load of a report the device changed can have put there
SavedBuffersValidWitness ==
    /\ lastOp = "save" /\ lastErr = NoError /\ sent # <<>>
    /\ changes > 0 /\ cfg.ball_x = 1 /\ sent[1][FieldIndex("ball_x")] = 1

====
